---- MODULE Spec2Model ----
(***************************************************************************)
(* A model of the event loop iterator `Events` of src/src/lib.rs.          *)
(*                                                                         *)
(* The engine's fields are the variables state .. swap_buffers.  The       *)
(* window back-end, the clock (clock_ticks::precise_time_ns) and the       *)
(* sleep primitive are the environment: should_close, size, queue, swaps   *)
(* and now.  One call of Events::next is a run of its `loop`: every        *)
(* iteration of the loop is one action (NextRender .. NextUpdate), because *)
(* each iteration reads the clock and the window afresh; in_next tells     *)
(* whether a call is under way, ret is what the last finished call         *)
(* returned.  All times are nanoseconds, as in the source.                 *)
(***************************************************************************)
EXTENDS Integers, Sequences, FiniteSets

(***************************************************************************)
(* Program constants.                                                      *)
(***************************************************************************)
BILLION == 1000000000
DEFAULT_UPS == 120
DEFAULT_MAX_FPS == 60
\* the divisor of ns_to_ms; sleep_ms takes whole milliseconds
NS_PER_MS == 1000000

(***************************************************************************)
(* Bounds of the model.                                                    *)
(***************************************************************************)
\* calls of next() in one session
MaxPulls == 7
\* events of the environment in one session: the clock advancing between
\* two readings, an input item arriving, the window closing or resizing,
\* a sleep returning late
MaxEnv == 1
\* calls of the setters ups, max_fps, swap_buffers after construction
MaxSets == 1
\* the clock and the timestamps stop here: every sum of a timestamp and a
\* period stays below 2^31
MaxClock == 1100000000

\* the rates the setters are called with (besides the defaults)
Rates == {1, 2}
\* what the clock may advance by between two readings
ClockSteps == {20000000}
\* how much longer than asked a sleep may last
SleepOvershoot == {0, 500000}
\* sizes the window reports
Sizes == {<<100, 100>>, <<0, 100>>, <<100, 0>>}

VARIABLES
    state,            \* Events.state
    last_update,      \* Events.last_update
    last_frame,       \* Events.last_frame
    dt_update_in_ns,  \* Events.dt_update_in_ns
    dt_frame_in_ns,   \* Events.dt_frame_in_ns
    dt,               \* Events.dt, the f64 1.0 / frames as the fraction <<1, frames>>
    swap_buffers,     \* Events.swap_buffers
    should_close,     \* Window::should_close()
    size,             \* Window::size() as <<width, height>>
    queue,            \* the input items Window::poll_event() will hand out
    swaps,            \* how often Window::swap_buffers() was called
    now,              \* clock_ticks::precise_time_ns()
    in_next,          \* a call of next() is inside its loop
    ret,              \* what the last finished call of next() returned
    trace,            \* the events emitted so far, each with the clock reading of its phase
    calls,            \* calls of next() begun
    closed_at_call,   \* should_close when the last call of next() began
    start,            \* the clock reading taken by Events::new
    n_env,            \* events of the environment so far
    n_sets,           \* calls of the setters so far
    ups_mid,          \* ups() was called after the first call of next()
    fps_mid           \* max_fps() was called after the first call of next()

engine == <<state, last_update, last_frame, dt_update_in_ns, dt_frame_in_ns, dt,
            swap_buffers>>
window == <<should_close, size, queue, swaps>>
caller == <<in_next, ret, trace, calls, closed_at_call>>
config == <<n_sets, ups_mid, fps_mid>>
vars == <<engine, window, caller, config, now, start, n_env>>

(***************************************************************************)
(* Values.                                                                 *)
(***************************************************************************)
Min(a, b) == IF a <= b THEN a ELSE b

RECURSIVE Gcd(_, _)
Gcd(a, b) == IF b = 0 THEN a ELSE Gcd(b, a % b)

\* An f64 quotient n / d as the fraction in lowest terms.  A numerator below
\* zero stands for an unsigned subtraction that went below zero (a panic in a
\* debug build, 2^64 + n in a release build): it is kept as <<n, 0>>.
Frac(n, d) ==
    IF n < 0 THEN <<n, 0>>
    ELSE LET g == Gcd(n, d) IN <<n \div g, d \div g>>

\* nanoseconds as f64 seconds: (ns as f64) / (BILLION as f64)
Seconds(ns) == Frac(ns, BILLION)

\* the conversion rounding up instead of truncating
ns_to_ms_RoundsUp(ns) == (ns + NS_PER_MS - 1) \div NS_PER_MS

ns_to_ms(ns) == ns \div NS_PER_MS

\* enum Idle, enum State
Idle_No == "No"
Idle_Yes == "Yes"
State_Render == <<"Render">>
State_SwapBuffers == <<"SwapBuffers">>
State_UpdateLoop(idle) == <<"UpdateLoop", idle>>
State_HandleEvents == <<"HandleEvents">>
State_Update == <<"Update">>

\* trait EventMap: the five events, and None for the end of the iteration
render(ext_dt, width, height) ==
    [type |-> "Render", ext_dt |-> ext_dt, width |-> width, height |-> height]
after_render == [type |-> "AfterRender"]
update(d) == [type |-> "Update", dt |-> d]
input(x) == [type |-> "Input", item |-> x]
idle(d) == [type |-> "Idle", dt |-> d]
None == [type |-> "None"]
NoCall == [type |-> "NoCall"]

(***************************************************************************)
(* Events::new: the defaults, both timestamps at the clock reading.  A     *)
(* session starts with new followed by the chained setters                 *)
(* .ups(u).max_fps(f).swap_buffers(b), or by none of them (the defaults).  *)
(***************************************************************************)
new(u, f, b) ==
    /\ state = State_Render
    /\ last_update = start
    /\ last_frame = start
    /\ dt_update_in_ns = BILLION \div u
    /\ dt_frame_in_ns = BILLION \div f
    /\ dt = Frac(1, u)
    /\ swap_buffers = b

Init ==
    /\ now = 0
    /\ start = now
    /\ \E u \in {DEFAULT_UPS} \cup Rates, f \in {DEFAULT_MAX_FPS} \cup Rates, b \in BOOLEAN :
           new(u, f, b)
    /\ should_close = FALSE
    /\ size = <<100, 100>>
    /\ queue = <<>>
    /\ swaps = 0
    /\ in_next = FALSE
    /\ ret = NoCall
    /\ trace = <<>>
    /\ calls = 0
    /\ closed_at_call = FALSE
    /\ n_env = 0
    /\ n_sets = 0
    /\ ups_mid = FALSE
    /\ fps_mid = FALSE

(***************************************************************************)
(* The setters, called between two calls of next().  (The third guard of   *)
(* ups keeps last_update within the model's clock range: an update that is *)
(* already pending advances last_update by the new period.)                *)
(***************************************************************************)
\* ups() restarting the update schedule from the present
ups_Reanchors(frames) ==
    /\ ~in_next
    /\ n_sets < MaxSets
    /\ state = State_HandleEvents => last_update + BILLION \div frames <= MaxClock
    /\ dt_update_in_ns' = BILLION \div frames
    /\ dt' = Frac(1, frames)
    /\ last_update' = now
    /\ n_sets' = n_sets + 1
    /\ ups_mid' = (ups_mid \/ calls > 0)
    /\ UNCHANGED <<state, last_frame, dt_frame_in_ns, swap_buffers,
                   window, caller, fps_mid, now, start, n_env>>

ups(frames) ==
    /\ ~in_next
    /\ n_sets < MaxSets
    /\ state = State_HandleEvents => last_update + BILLION \div frames <= MaxClock
    /\ dt_update_in_ns' = BILLION \div frames
    /\ dt' = Frac(1, frames)
    /\ n_sets' = n_sets + 1
    /\ ups_mid' = (ups_mid \/ calls > 0)
    /\ UNCHANGED <<state, last_update, last_frame, dt_frame_in_ns, swap_buffers,
                   window, caller, fps_mid, now, start, n_env>>

max_fps(frames) ==
    /\ ~in_next
    /\ n_sets < MaxSets
    /\ dt_frame_in_ns' = BILLION \div frames
    /\ n_sets' = n_sets + 1
    /\ fps_mid' = (fps_mid \/ calls > 0)
    /\ UNCHANGED <<state, last_update, last_frame, dt_update_in_ns, dt, swap_buffers,
                   window, caller, ups_mid, now, start, n_env>>

set_swap_buffers(enable) ==
    /\ ~in_next
    /\ n_sets < MaxSets
    /\ swap_buffers # enable
    /\ swap_buffers' = enable
    /\ n_sets' = n_sets + 1
    /\ UNCHANGED <<state, last_update, last_frame, dt_update_in_ns, dt_frame_in_ns, dt,
                   window, caller, ups_mid, fps_mid, now, start, n_env>>

(***************************************************************************)
(* Events::next.  A call begins with the first iteration of its loop and   *)
(* ends with the iteration that returns.                                   *)
(***************************************************************************)
Begin ==
    /\ in_next \/ calls < MaxPulls
    /\ calls' = IF in_next THEN calls ELSE calls + 1
    /\ closed_at_call' = IF in_next THEN closed_at_call ELSE should_close

\* return Some(ev), from a phase that read the clock as t
ReturnSome(ev, t) ==
    /\ in_next' = FALSE
    /\ ret' = ev
    /\ trace' = Append(trace, [ev |-> ev, at |-> t])

\* return None
ReturnNone ==
    /\ in_next' = FALSE
    /\ ret' = None
    /\ trace' = trace

\* the match arm yields the next state and the loop goes round
Continue ==
    /\ in_next' = TRUE
    /\ UNCHANGED <<ret, trace>>

\* the Render phase without the should_close check
NextRender_NoCloseCheck ==
    /\ state = State_Render
    /\ Begin
    /\ LET start_render == now IN
       /\ last_frame' = start_render
       /\ IF size[1] # 0 /\ size[2] # 0
          THEN /\ state' = State_SwapBuffers
               /\ ReturnSome(render(Seconds(start_render - last_update),
                                    size[1], size[2]), start_render)
          ELSE /\ state' = State_UpdateLoop(Idle_No)
               /\ Continue
    /\ UNCHANGED <<last_update, dt_update_in_ns, dt_frame_in_ns, dt, swap_buffers,
                   window, config, now, start, n_env>>

\* the Render phase stamping last_frame before it looks at should_close
NextRender_StampsBeforeClose ==
    /\ state = State_Render
    /\ Begin
    /\ LET start_render == now IN
       /\ last_frame' = start_render
       /\ IF should_close
          THEN /\ ReturnNone
               /\ UNCHANGED state
          ELSE IF size[1] # 0 /\ size[2] # 0
          THEN /\ state' = State_SwapBuffers
               /\ ReturnSome(render(Seconds(start_render - last_update),
                                    size[1], size[2]), start_render)
          ELSE /\ state' = State_UpdateLoop(Idle_No)
               /\ Continue
    /\ UNCHANGED <<last_update, dt_update_in_ns, dt_frame_in_ns, dt, swap_buffers,
                   window, config, now, start, n_env>>

\* the Render phase with || for && in the size test
NextRender_EitherDimension ==
    /\ state = State_Render
    /\ Begin
    /\ IF should_close
       THEN /\ ReturnNone
            /\ UNCHANGED <<state, last_frame>>
       ELSE LET start_render == now IN
            /\ last_frame' = start_render
            /\ IF size[1] # 0 \/ size[2] # 0
               THEN /\ state' = State_SwapBuffers
                    /\ ReturnSome(render(Seconds(start_render - last_update),
                                         size[1], size[2]), start_render)
               ELSE /\ state' = State_UpdateLoop(Idle_No)
                    /\ Continue
    /\ UNCHANGED <<last_update, dt_update_in_ns, dt_frame_in_ns, dt, swap_buffers,
                   window, config, now, start, n_env>>

\* the Render phase trying again at once while the window has no area
NextRender_RetriesAtOnce ==
    /\ state = State_Render
    /\ Begin
    /\ IF should_close
       THEN /\ ReturnNone
            /\ UNCHANGED <<state, last_frame>>
       ELSE LET start_render == now IN
            /\ last_frame' = start_render
            /\ IF size[1] # 0 /\ size[2] # 0
               THEN /\ state' = State_SwapBuffers
                    /\ ReturnSome(render(Seconds(start_render - last_update),
                                         size[1], size[2]), start_render)
               ELSE /\ state' = State_Render
                    /\ Continue
    /\ UNCHANGED <<last_update, dt_update_in_ns, dt_frame_in_ns, dt, swap_buffers,
                   window, config, now, start, n_env>>

NextRender ==
    /\ state = State_Render
    /\ Begin
    /\ IF should_close
       THEN /\ ReturnNone
            /\ UNCHANGED <<state, last_frame>>
       ELSE LET start_render == now IN
            /\ last_frame' = start_render
            /\ IF size[1] # 0 /\ size[2] # 0
               THEN /\ state' = State_SwapBuffers
                    /\ ReturnSome(render(Seconds(start_render - last_update),
                                         size[1], size[2]), start_render)
               ELSE /\ state' = State_UpdateLoop(Idle_No)
                    /\ Continue
    /\ UNCHANGED <<last_update, dt_update_in_ns, dt_frame_in_ns, dt, swap_buffers,
                   window, config, now, start, n_env>>

\* the SwapBuffers phase emitting AfterRender whether or not it swapped
NextSwapBuffers_AlwaysEmits ==
    /\ state = State_SwapBuffers
    /\ Begin
    /\ state' = State_UpdateLoop(Idle_No)
    /\ swaps' = IF swap_buffers THEN swaps + 1 ELSE swaps
    /\ ReturnSome(after_render, now)
    /\ UNCHANGED <<last_update, last_frame, dt_update_in_ns, dt_frame_in_ns, dt,
                   swap_buffers, should_close, size, queue, config, now, start, n_env>>

NextSwapBuffers ==
    /\ state = State_SwapBuffers
    /\ Begin
    /\ state' = State_UpdateLoop(Idle_No)
    /\ IF swap_buffers
       THEN /\ swaps' = swaps + 1
            /\ ReturnSome(after_render, now)
       ELSE /\ swaps' = swaps
            /\ Continue
    /\ UNCHANGED <<last_update, last_frame, dt_update_in_ns, dt_frame_in_ns, dt,
                   swap_buffers, should_close, size, queue, config, now, start, n_env>>

\* the waiting phase as it would run with another instant taken for the
\* nearest scheduled event
UpdateLoopArm(late, next_event, next_frame) ==
    /\ state[1] = "UpdateLoop"
    /\ Begin
    /\ LET current_time == now
       IN IF next_event > current_time
          THEN IF queue # <<>>
               THEN /\ late = 0
                    /\ queue' = Tail(queue)
                    /\ state' = State_UpdateLoop(Idle_No)
                    /\ ReturnSome(input(Head(queue)), current_time)
                    /\ UNCHANGED <<now, n_env>>
               ELSE IF state[2] = Idle_No
               THEN /\ late = 0
                    /\ state' = State_UpdateLoop(Idle_Yes)
                    /\ ReturnSome(idle(Seconds(next_event - current_time)), current_time)
                    /\ UNCHANGED <<queue, now, n_env>>
               ELSE /\ late > 0 => n_env < MaxEnv
                    /\ now' = now + ns_to_ms(next_event - current_time) * NS_PER_MS + late
                    /\ now' <= MaxClock
                    /\ n_env' = IF late > 0 THEN n_env + 1 ELSE n_env
                    /\ state' = State_UpdateLoop(Idle_No)
                    /\ Continue
                    /\ UNCHANGED queue
          ELSE /\ late = 0
               /\ state' = IF next_event = next_frame THEN State_Render
                                                      ELSE State_HandleEvents
               /\ Continue
               /\ UNCHANGED <<queue, now, n_env>>
    /\ UNCHANGED <<last_update, last_frame, dt_update_in_ns, dt_frame_in_ns, dt,
                   swap_buffers, should_close, size, swaps, config, start>>

\* the waiting phase waiting for the next frame only: min(..) forgotten
NextUpdateLoop_WaitsForFrame(late) ==
    UpdateLoopArm(late, last_frame + dt_frame_in_ns, last_frame + dt_frame_in_ns)

\* the waiting phase reporting idle before it polls the window
NextUpdateLoop_IdleBeforePoll(late) ==
    /\ state[1] = "UpdateLoop"
    /\ Begin
    /\ LET current_time == now
           next_frame == last_frame + dt_frame_in_ns
           next_update == last_update + dt_update_in_ns
           next_event == Min(next_frame, next_update)
       IN IF next_event > current_time
          THEN IF state[2] = Idle_No
               THEN /\ late = 0
                    /\ state' = State_UpdateLoop(Idle_Yes)
                    /\ ReturnSome(idle(Seconds(next_event - current_time)), current_time)
                    /\ UNCHANGED <<queue, now, n_env>>
               ELSE IF queue # <<>>
               THEN /\ late = 0
                    /\ queue' = Tail(queue)
                    /\ state' = State_UpdateLoop(Idle_No)
                    /\ ReturnSome(input(Head(queue)), current_time)
                    /\ UNCHANGED <<now, n_env>>
               ELSE /\ late > 0 => n_env < MaxEnv
                    /\ now' = now + ns_to_ms(next_event - current_time) * NS_PER_MS + late
                    /\ now' <= MaxClock
                    /\ n_env' = IF late > 0 THEN n_env + 1 ELSE n_env
                    /\ state' = State_UpdateLoop(Idle_No)
                    /\ Continue
                    /\ UNCHANGED queue
          ELSE /\ late = 0
               /\ state' = IF next_event = next_frame THEN State_Render
                                                      ELSE State_HandleEvents
               /\ Continue
               /\ UNCHANGED <<queue, now, n_env>>
    /\ UNCHANGED <<last_update, last_frame, dt_update_in_ns, dt_frame_in_ns, dt,
                   swap_buffers, should_close, size, swaps, config, start>>

\* the waiting phase giving the update the tie: next_event == next_update first
NextUpdateLoop_UpdateFirstOnTie(late) ==
    /\ state[1] = "UpdateLoop"
    /\ Begin
    /\ LET current_time == now
           next_frame == last_frame + dt_frame_in_ns
           next_update == last_update + dt_update_in_ns
           next_event == Min(next_frame, next_update)
       IN IF next_event > current_time
          THEN IF queue # <<>>
               THEN /\ late = 0
                    /\ queue' = Tail(queue)
                    /\ state' = State_UpdateLoop(Idle_No)
                    /\ ReturnSome(input(Head(queue)), current_time)
                    /\ UNCHANGED <<now, n_env>>
               ELSE IF state[2] = Idle_No
               THEN /\ late = 0
                    /\ state' = State_UpdateLoop(Idle_Yes)
                    /\ ReturnSome(idle(Seconds(next_event - current_time)), current_time)
                    /\ UNCHANGED <<queue, now, n_env>>
               ELSE /\ late > 0 => n_env < MaxEnv
                    /\ now' = now + ns_to_ms(next_event - current_time) * NS_PER_MS + late
                    /\ now' <= MaxClock
                    /\ n_env' = IF late > 0 THEN n_env + 1 ELSE n_env
                    /\ state' = State_UpdateLoop(Idle_No)
                    /\ Continue
                    /\ UNCHANGED queue
          ELSE /\ late = 0
               /\ state' = IF next_event = next_update THEN State_HandleEvents
                                                       ELSE State_Render
               /\ Continue
               /\ UNCHANGED <<queue, now, n_env>>
    /\ UNCHANGED <<last_update, last_frame, dt_update_in_ns, dt_frame_in_ns, dt,
                   swap_buffers, should_close, size, swaps, config, start>>

\* the waiting phase going to Render whenever anything is due
NextUpdateLoop_RenderWhenDue(late) ==
    /\ state[1] = "UpdateLoop"
    /\ Begin
    /\ LET current_time == now
           next_frame == last_frame + dt_frame_in_ns
           next_update == last_update + dt_update_in_ns
           next_event == Min(next_frame, next_update)
       IN IF next_event > current_time
          THEN IF queue # <<>>
               THEN /\ late = 0
                    /\ queue' = Tail(queue)
                    /\ state' = State_UpdateLoop(Idle_No)
                    /\ ReturnSome(input(Head(queue)), current_time)
                    /\ UNCHANGED <<now, n_env>>
               ELSE IF state[2] = Idle_No
               THEN /\ late = 0
                    /\ state' = State_UpdateLoop(Idle_Yes)
                    /\ ReturnSome(idle(Seconds(next_event - current_time)), current_time)
                    /\ UNCHANGED <<queue, now, n_env>>
               ELSE /\ late > 0 => n_env < MaxEnv
                    /\ now' = now + ns_to_ms(next_event - current_time) * NS_PER_MS + late
                    /\ now' <= MaxClock
                    /\ n_env' = IF late > 0 THEN n_env + 1 ELSE n_env
                    /\ state' = State_UpdateLoop(Idle_No)
                    /\ Continue
                    /\ UNCHANGED queue
          ELSE /\ late = 0
               /\ state' = State_Render
               /\ Continue
               /\ UNCHANGED <<queue, now, n_env>>
    /\ UNCHANGED <<last_update, last_frame, dt_update_in_ns, dt_frame_in_ns, dt,
                   swap_buffers, should_close, size, swaps, config, start>>

\* `late` is how much longer than asked the sleep lasts, when the arm sleeps
NextUpdateLoop(late) ==
    /\ state[1] = "UpdateLoop"
    /\ Begin
    /\ LET current_time == now
           next_frame == last_frame + dt_frame_in_ns
           next_update == last_update + dt_update_in_ns
           next_event == Min(next_frame, next_update)
       IN IF next_event > current_time
          THEN IF queue # <<>>
               THEN /\ late = 0
                    /\ queue' = Tail(queue)
                    /\ state' = State_UpdateLoop(Idle_No)
                    /\ ReturnSome(input(Head(queue)), current_time)
                    /\ UNCHANGED <<now, n_env>>
               ELSE IF state[2] = Idle_No
               THEN /\ late = 0
                    /\ state' = State_UpdateLoop(Idle_Yes)
                    /\ ReturnSome(idle(Seconds(next_event - current_time)), current_time)
                    /\ UNCHANGED <<queue, now, n_env>>
               ELSE /\ late > 0 => n_env < MaxEnv
                    /\ now' = now + ns_to_ms(next_event - current_time) * NS_PER_MS + late
                    /\ now' <= MaxClock
                    /\ n_env' = IF late > 0 THEN n_env + 1 ELSE n_env
                    /\ state' = State_UpdateLoop(Idle_No)
                    /\ Continue
                    /\ UNCHANGED queue
          ELSE /\ late = 0
               /\ state' = IF next_event = next_frame THEN State_Render
                                                      ELSE State_HandleEvents
               /\ Continue
               /\ UNCHANGED <<queue, now, n_env>>
    /\ UNCHANGED <<last_update, last_frame, dt_update_in_ns, dt_frame_in_ns, dt,
                   swap_buffers, should_close, size, swaps, config, start>>

\* updating without handling the window's events first
NextHandleEvents_SkipsDrain ==
    /\ state = State_HandleEvents
    /\ Begin
    /\ state' = State_Update
    /\ Continue
    /\ UNCHANGED <<last_update, last_frame, dt_update_in_ns, dt_frame_in_ns, dt,
                   swap_buffers, window, now, config, start, n_env>>

NextHandleEvents ==
    /\ state = State_HandleEvents
    /\ Begin
    /\ IF queue = <<>>
       THEN /\ state' = State_Update
            /\ Continue
            /\ UNCHANGED queue
       ELSE /\ queue' = Tail(queue)
            /\ ReturnSome(input(Head(queue)), now)
            /\ UNCHANGED state
    /\ UNCHANGED <<last_update, last_frame, dt_update_in_ns, dt_frame_in_ns, dt,
                   swap_buffers, should_close, size, swaps, config, now, start, n_env>>

\* the Update phase advancing last_update by two periods
NextUpdate_DoubleStep ==
    /\ state = State_Update
    /\ Begin
    /\ dt_update_in_ns <= MaxClock - last_update - dt_update_in_ns
    /\ state' = State_UpdateLoop(Idle_No)
    /\ last_update' = last_update + 2 * dt_update_in_ns
    /\ ReturnSome(update(dt), now)
    /\ UNCHANGED <<last_frame, dt_update_in_ns, dt_frame_in_ns, dt, swap_buffers,
                   window, config, now, start, n_env>>

\* the Update phase setting last_update to the clock reading
NextUpdate_SnapsToNow ==
    /\ state = State_Update
    /\ Begin
    /\ state' = State_UpdateLoop(Idle_No)
    /\ last_update' = now
    /\ ReturnSome(update(dt), now)
    /\ UNCHANGED <<last_frame, dt_update_in_ns, dt_frame_in_ns, dt, swap_buffers,
                   window, config, now, start, n_env>>

NextUpdate ==
    /\ state = State_Update
    /\ Begin
    /\ state' = State_UpdateLoop(Idle_No)
    /\ last_update' = last_update + dt_update_in_ns
    /\ ReturnSome(update(dt), now)
    /\ UNCHANGED <<last_frame, dt_update_in_ns, dt_frame_in_ns, dt, swap_buffers,
                   window, config, now, start, n_env>>

\* one iteration of the loop of Events::next
next ==
    \/ NextRender
    \/ NextSwapBuffers
    \/ \E late \in SleepOvershoot : NextUpdateLoop(late)
    \/ NextHandleEvents
    \/ NextUpdate

(***************************************************************************)
(* The environment.                                                        *)
(***************************************************************************)
\* the clock is monotonic: it advances between two readings
Tick(d) ==
    /\ n_env < MaxEnv
    /\ now + d <= MaxClock
    /\ now' = now + d
    /\ n_env' = n_env + 1
    /\ UNCHANGED <<engine, window, caller, config, start>>

\* the back-end queues an input item
Arrive ==
    /\ n_env < MaxEnv
    /\ queue' = Append(queue, n_env + 1)
    /\ n_env' = n_env + 1
    /\ UNCHANGED <<engine, should_close, size, swaps, caller, config, now, start>>

\* the window closes, and stays closed
Close ==
    /\ n_env < MaxEnv
    /\ ~should_close
    /\ should_close' = TRUE
    /\ n_env' = n_env + 1
    /\ UNCHANGED <<engine, size, queue, swaps, caller, config, now, start>>

Resize(sz) ==
    /\ n_env < MaxEnv
    /\ size # sz
    /\ size' = sz
    /\ n_env' = n_env + 1
    /\ UNCHANGED <<engine, should_close, queue, swaps, caller, config, now, start>>

Next ==
    \/ next
    \/ \E frames \in Rates : ups(frames)
    \/ \E frames \in Rates : max_fps(frames)
    \/ \E enable \in BOOLEAN : set_swap_buffers(enable)
    \/ \E d \in ClockSteps : Tick(d)
    \/ Arrive
    \/ Close
    \/ \E sz \in Sizes : Resize(sz)

Spec == Init /\ [][Next]_vars

(***************************************************************************)
(* What the claims speak of.                                               *)
(***************************************************************************)
\* the events of one type emitted so far
Count(type) == Cardinality({i \in DOMAIN trace : trace[i].ev.type = type})
NUpdates == Count("Update")

\* this step returns an event of this type
Emits(type) == Len(trace') = Len(trace) + 1 /\ ret'.type = type

\* this step ends a call of next()
Returns == ~in_next' /\ (in_next \/ calls' = calls + 1)

\* the nearest scheduled event, as the waiting phase computes it
NextEvent == Min(last_frame + dt_frame_in_ns, last_update + dt_update_in_ns)

\* the size the window reports has a zero dimension
ZeroSize == size[1] = 0 \/ size[2] = 0

(***************************************************************************)
(* C1: last_update changes only in the step that emits an Update event,    *)
(* and then by exactly +dt_update_in_ns, whatever the clock reads; so as   *)
(* long as ups() was not called after the first call of next(),            *)
(* last_update = start + N * dt_update_in_ns after N Update events.        *)
(***************************************************************************)
C1_FixedTimestep ==
    /\ [][/\ (last_update' # last_update) <=> Emits("Update")
          /\ Emits("Update") => last_update' = last_update + dt_update_in_ns]_vars
    /\ [](~ups_mid => last_update = start + NUpdates * dt_update_in_ns)

C1_Witness ==
    /\ NUpdates >= 2
    /\ ~ups_mid
    /\ Count("Render") >= 1
    /\ Count("Idle") >= 1
    /\ last_update # now

C3_NoneExactlyInRenderClosed ==
    /\ [][next => ((Returns /\ ret' = None) <=> (state = State_Render /\ should_close))]_vars
    /\ [][(next /\ Returns /\ ret' = None)
            => /\ UNCHANGED <<state, last_update, last_frame>>
               /\ state = State_Render
               /\ trace' = trace]_vars
    /\ [][(next /\ Returns /\ ret' # None)
            => ret'.type \in {"Render", "AfterRender", "Update", "Input", "Idle"}]_vars
    /\ []((calls >= 1 /\ ~in_next /\ trace = <<>>) => ret = None)
    /\ []((calls = 1 /\ ~in_next /\ closed_at_call) => (ret = None /\ trace = <<>>))

C3_Witness ==
    /\ calls = 2
    /\ ~in_next
    /\ closed_at_call
    /\ ret = None
    /\ trace = <<>>
    /\ state = State_Render
    /\ last_frame = start

(***************************************************************************)
(* C4: a render attempt that reads a size with a zero dimension emits      *)
(* nothing, still sets last_frame to the clock reading and goes on in      *)
(* UpdateLoop(Idle::No); every Render event carries the size just read,    *)
(* both dimensions non-zero.                                               *)
(***************************************************************************)
C4_NoRenderAtZeroSize ==
    /\ [][(NextRender /\ ~should_close /\ ZeroSize)
            => /\ trace' = trace
               /\ in_next'
               /\ last_frame' = now
               /\ state' = State_UpdateLoop(Idle_No)]_vars
    /\ [][Emits("Render")
            => /\ ~ZeroSize
               /\ ret'.width = size[1]
               /\ ret'.height = size[2]
               /\ last_frame' = now]_vars

C4_Witness ==
    /\ in_next
    /\ Count("Render") = 0
    /\ Count("Update") >= 1
    /\ ZeroSize
    /\ state = State_UpdateLoop(Idle_No)
    /\ last_frame = now
    /\ now > start

(***************************************************************************)
(* C5: AfterRender is emitted exactly when swap-buffers is enabled, by the *)
(* call right after the one that emitted Render, with no event between;    *)
(* Window::swap_buffers() is called once per AfterRender and never when    *)
(* disabled; when disabled, the call after a Render emits no AfterRender   *)
(* and goes on to the waiting phase.                                       *)
(***************************************************************************)
C5_AfterRender ==
    /\ [](\A i \in DOMAIN trace :
            trace[i].ev.type = "AfterRender" => (i > 1 /\ trace[i - 1].ev.type = "Render"))
    /\ [](swaps = Count("AfterRender"))
    /\ []((~in_next /\ ret.type = "Render") => state = State_SwapBuffers)
    /\ [][NextSwapBuffers
            => IF swap_buffers
               THEN Emits("AfterRender") /\ Returns /\ swaps' = swaps + 1
               ELSE /\ trace' = trace
                    /\ in_next'
                    /\ swaps' = swaps
                    /\ state' = State_UpdateLoop(Idle_No)]_vars
    /\ [][Emits("AfterRender") => (swap_buffers /\ ret.type = "Render")]_vars
    /\ [][(swaps' # swaps) => (swap_buffers /\ Emits("AfterRender"))]_vars

C5_Witness ==
    /\ \E i \in DOMAIN trace :
         trace[i].ev.type = "Render" /\ i < Len(trace) /\ trace[i + 1].ev.type = "AfterRender"
    /\ \E j \in DOMAIN trace :
         trace[j].ev.type = "Render" /\ j < Len(trace) /\ trace[j + 1].ev.type # "AfterRender"
    /\ swaps = 1

\* the instant an Idle event counts down to: the clock reading of its phase
\* plus its dt, taken back from seconds to nanoseconds
IdleDue(i) == trace[i].at + trace[i].ev.dt[1] * (BILLION \div trace[i].ev.dt[2])

(***************************************************************************)
(* C6, as claimed: with the rates unchanged, no two Idle events in a row   *)
(* (so with no input delivered between them) count down to the same        *)
(* scheduled instant: one waiting interval has at most one Idle event,     *)
(* also after the sleep has returned.                                      *)
(***************************************************************************)
C6_OneIdlePerInterval ==
    (~ups_mid /\ ~fps_mid) =>
        \A i \in DOMAIN trace :
            (/\ i < Len(trace)
             /\ trace[i].ev.type = "Idle"
             /\ trace[i + 1].ev.type = "Idle") => IdleDue(i) # IdleDue(i + 1)

(***************************************************************************)
(* C7: an Idle event is emitted only from UpdateLoop(Idle::No) and only    *)
(* when the poll found no item; it leaves UpdateLoop(Idle::Yes), from      *)
(* where the next iteration delivers an Input (and resets the guard),      *)
(* sleeps, or finds something due, but never emits Idle; while nothing is  *)
(* due a queued item is delivered, first in first out, instead of Idle.    *)
(***************************************************************************)
C7_IdleGuard ==
    /\ [][Emits("Idle")
            => /\ queue = <<>>
               /\ state = State_UpdateLoop(Idle_No)
               /\ state' = State_UpdateLoop(Idle_Yes)
               /\ NextEvent > now]_vars
    /\ []((~in_next /\ ret.type = "Idle") => state = State_UpdateLoop(Idle_Yes))
    /\ [][(next /\ state = State_UpdateLoop(Idle_Yes))
            => \/ Emits("Input") /\ state' = State_UpdateLoop(Idle_No)
               \/ /\ trace' = trace
                  /\ in_next'
                  /\ IF NextEvent > now
                     THEN /\ state' = State_UpdateLoop(Idle_No)
                          /\ now' >= now + ns_to_ms(NextEvent - now) * NS_PER_MS
                     ELSE state' \in {State_Render, State_HandleEvents}]_vars
    /\ [][(next /\ state[1] = "UpdateLoop" /\ queue # <<>>)
            => /\ ~Emits("Idle")
               /\ NextEvent > now
                    => (Emits("Input") /\ ret'.item = Head(queue)
                        /\ state' = State_UpdateLoop(Idle_No))]_vars

C7_Witness ==
    \E i \in DOMAIN trace :
        /\ i + 2 <= Len(trace)
        /\ trace[i].ev.type = "Idle"
        /\ trace[i + 1].ev.type = "Input"
        /\ trace[i + 2].ev.type = "Idle"
        /\ IdleDue(i) = IdleDue(i + 2)

(***************************************************************************)
(* C8: the reference run.  Events::new(..).ups(2).max_fps(1),              *)
(* swap-buffers enabled, a 100x100 window that never closes, no input, a   *)
(* clock that starts at 0 and advances only in sleep, by exactly what was  *)
(* asked.  The events emitted are then Render{0}, AfterRender, Idle{1/2},  *)
(* Update{1/2} at 0.5 s, Idle{1/2}, Render{1/2} at 1.0 s, AfterRender,     *)
(* Update{1/2}, Idle{1/2}, ...                                             *)
(***************************************************************************)
RefRun ==
    /\ n_env = 0
    /\ start = 0
    /\ dt_update_in_ns = BILLION \div 2
    /\ dt_frame_in_ns = BILLION \div 1
    /\ swap_buffers
    /\ n_sets = 0

RefTrace ==
    << [ev |-> render(Frac(0, 1), 100, 100), at |-> 0],
       [ev |-> after_render,                 at |-> 0],
       [ev |-> idle(Frac(1, 2)),             at |-> 0],
       [ev |-> update(Frac(1, 2)),           at |-> BILLION \div 2],
       [ev |-> idle(Frac(1, 2)),             at |-> BILLION \div 2],
       [ev |-> render(Frac(1, 2), 100, 100), at |-> BILLION],
       [ev |-> after_render,                 at |-> BILLION],
       [ev |-> update(Frac(1, 2)),           at |-> BILLION],
       [ev |-> idle(Frac(1, 2)),             at |-> BILLION] >>

C8_ReferenceTrace ==
    RefRun =>
        /\ Len(trace) <= Len(RefTrace)
        /\ \A i \in DOMAIN trace : trace[i] = RefTrace[i]
        /\ ret # None

C8_Witness == RefRun /\ ~in_next /\ Len(trace) >= 7

(***************************************************************************)
(* C9, as claimed: with the update rate U unchanged, after N Update events *)
(* the advance of last_update, in seconds, is exactly N / U.               *)
(***************************************************************************)
C9_CommittedTime ==
    ~ups_mid => Frac(last_update - start, BILLION) = Frac(NUpdates, dt[2])

(***************************************************************************)
(* C10: with max_fps unchanged, every render attempt but the first reads   *)
(* the clock at least dt_frame_in_ns after the attempt before it, so any   *)
(* two Render events are at least dt_frame_in_ns apart; and the engine     *)
(* moves into the Render phase only when last_frame + dt_frame_in_ns <=    *)
(* now.                                                                    *)
(***************************************************************************)
C10_FrameRateCap ==
    /\ [][(NextRender /\ ~should_close /\ calls > 0 /\ ~fps_mid)
            => last_frame' >= last_frame + dt_frame_in_ns]_vars
    /\ [][(state' = State_Render /\ state # State_Render)
            => last_frame + dt_frame_in_ns <= now]_vars
    /\ [](~fps_mid =>
            \A i, j \in DOMAIN trace :
                (i < j /\ trace[i].ev.type = "Render" /\ trace[j].ev.type = "Render")
                    => trace[j].at - trace[i].at >= dt_frame_in_ns)

C10_Witness ==
    /\ ~fps_mid
    /\ Count("Render") >= 2
    /\ \E i \in DOMAIN trace : trace[i].ev.type = "Render" /\ trace[i].at = last_frame
    /\ \E i \in DOMAIN trace :
         trace[i].ev.type = "Render" /\ last_frame - trace[i].at > dt_frame_in_ns

\* this step is the sleep of the waiting phase: the only way from UpdateLoop
\* to UpdateLoop(Idle::No) without returning
Sleeps ==
    /\ next
    /\ state[1] = "UpdateLoop"
    /\ state' = State_UpdateLoop(Idle_No)
    /\ in_next'

\* the nanoseconds an Idle event carries
IdleNs(ev) == ev.dt[1] * (BILLION \div ev.dt[2])

(***************************************************************************)
(* C11: an Idle event is emitted, and the thread put to sleep, only when   *)
(* neither a frame nor an update is due, and Idle carries the strictly     *)
(* positive time left to the nearer of the two; so while an update is due  *)
(* (the loop lags) no step of next() emits Idle, sleeps or lets the clock  *)
(* pass.                                                                   *)
(***************************************************************************)
C11_NoIdleWhileDue ==
    /\ [][Emits("Idle")
            => /\ now < last_frame + dt_frame_in_ns
               /\ now < last_update + dt_update_in_ns
               /\ ret'.dt = Seconds(NextEvent - now)
               /\ IdleNs(ret') = NextEvent - now
               /\ IdleNs(ret') > 0]_vars
    /\ [][Sleeps
            => /\ now < last_frame + dt_frame_in_ns
               /\ now < last_update + dt_update_in_ns]_vars
    /\ [][(next /\ now' # now) => Sleeps]_vars
    /\ [][(next /\ last_update + dt_update_in_ns <= now)
            => (~Emits("Idle") /\ ~Sleeps /\ now' = now)]_vars

\* two updates caught up back to back at one clock reading, then Idle
C11_Witness ==
    \E i \in DOMAIN trace :
        /\ i + 2 <= Len(trace)
        /\ trace[i].ev.type = "Update"
        /\ trace[i + 1].ev.type = "Update"
        /\ trace[i + 1].at = trace[i].at
        /\ trace[i + 2].ev.type = "Idle"
        /\ trace[i + 2].at = trace[i].at

\* rates a caller may pass to the setters, up to and past BILLION
WideRates == Rates \cup {BILLION, BILLION + 1}

\* the engine as new() alone leaves it
InitDefault ==
    /\ Init
    /\ dt_update_in_ns = BILLION \div DEFAULT_UPS
    /\ dt_frame_in_ns = BILLION \div DEFAULT_MAX_FPS
    /\ swap_buffers

NextRates ==
    \/ next
    \/ \E frames \in WideRates : ups(frames)
    \/ \E frames \in WideRates : max_fps(frames)
    \/ \E enable \in BOOLEAN : set_swap_buffers(enable)
    \/ \E d \in ClockSteps : Tick(d)
    \/ Arrive
    \/ Close
    \/ \E sz \in Sizes : Resize(sz)

SpecRates == InitDefault /\ [][NextRates]_vars

(***************************************************************************)
(* C12: the derived periods dt_update_in_ns and dt_frame_in_ns are         *)
(* strictly positive whatever non-zero rate was passed to ups() or         *)
(* max_fps().                                                              *)
(***************************************************************************)
C12_PositivePeriods ==
    /\ dt_update_in_ns > 0
    /\ dt_frame_in_ns > 0

(***************************************************************************)
(* C13: when the waiting phase finds something due (the nearer of the two  *)
(* schedules is not after the clock), it goes to the Render phase exactly  *)
(* when the frame is scheduled no later than the update, a tie included,   *)
(* and to HandleEvents exactly when the update is scheduled strictly       *)
(* earlier; either way it returns nothing and lets no time pass.           *)
(***************************************************************************)
C13_TieBreak ==
    [][(next /\ state[1] = "UpdateLoop" /\ NextEvent <= now)
         => /\ (last_frame + dt_frame_in_ns <= last_update + dt_update_in_ns)
                  <=> (state' = State_Render)
            /\ (last_update + dt_update_in_ns < last_frame + dt_frame_in_ns)
                  <=> (state' = State_HandleEvents)
            /\ in_next'
            /\ trace' = trace
            /\ now' = now]_vars

\* a frame and an update fell due at the same instant after an earlier
\* update, and the call went to the Render phase
C13_Witness ==
    /\ in_next
    /\ state = State_Render
    /\ Count("Update") >= 1
    /\ last_frame + dt_frame_in_ns = last_update + dt_update_in_ns
    /\ last_frame + dt_frame_in_ns <= now

(***************************************************************************)
(* C14: input is drained before every update.  In HandleEvents each        *)
(* queued item is delivered by a pull of its own, in poll order, and the   *)
(* phase is kept; the Update phase is entered only by a pull whose poll    *)
(* returned nothing, and that same pull emits the Update without touching  *)
(* the queue, so the queue is empty at the Update unless the window queued *)
(* something in the middle of that pull.  Between the decision that an     *)
(* update is due and that Update, only Input is emitted: no Idle, Render   *)
(* or AfterRender.                                                         *)
(***************************************************************************)
C14_DrainBeforeUpdate ==
    /\ [][(next /\ state = State_HandleEvents)
            => IF queue # <<>>
               THEN /\ Emits("Input")
                    /\ ret' = input(Head(queue))
                    /\ queue' = Tail(queue)
                    /\ state' = State_HandleEvents
                    /\ ~in_next'
               ELSE /\ state' = State_Update
                    /\ in_next'
                    /\ trace' = trace
                    /\ queue' = queue]_vars
    /\ [][(state' = State_Update /\ state # State_Update)
            => (state = State_HandleEvents /\ queue = <<>>)]_vars
    /\ [](state = State_Update => in_next)
    /\ [][(next /\ state = State_Update)
            => /\ Emits("Update")
               /\ queue' = queue
               /\ state' = State_UpdateLoop(Idle_No)
               /\ ~in_next']_vars
    /\ [][Emits("Update") => state = State_Update]_vars
    /\ [][(state = State_Update /\ queue' # queue)
            => (~next /\ Len(queue') = Len(queue) + 1 /\ state' = state)]_vars

\* an update fell due with two items queued: two pulls delivered them in
\* the order they were queued, and the third emitted the Update, all at one
\* clock reading later than the event before
C14_Witness ==
    /\ n_sets = 0
    /\ queue = <<>>
    /\ \E i \in DOMAIN trace :
          /\ 1 < i
          /\ i + 2 <= Len(trace)
          /\ trace[i - 1].at < trace[i].at
          /\ trace[i].ev = input(-1)
          /\ trace[i + 1].ev = input(0)
          /\ trace[i + 2].ev.type = "Update"
          /\ trace[i + 1].at = trace[i].at
          /\ trace[i + 2].at = trace[i].at

(***************************************************************************)
(* C15: next() sleeps only in the waiting phase with the idle guard set,   *)
(* as the first thing of a pull that directly follows an Idle event, with  *)
(* nothing due and no input queued, and at most once per pull; the         *)
(* duration it asks for, whole milliseconds, never exceeds the time left   *)
(* to the nearer schedule, so a sleep that lasts exactly as asked never    *)
(* carries the clock past it.                                              *)
(***************************************************************************)
C15_BoundedSleep ==
    /\ [][Sleeps
            => /\ state = State_UpdateLoop(Idle_Yes)
               /\ ~in_next
               /\ ret.type = "Idle"
               /\ queue = <<>>
               /\ NextEvent > now
               /\ ns_to_ms(NextEvent - now) * NS_PER_MS <= NextEvent - now
               /\ now' >= now + ns_to_ms(NextEvent - now) * NS_PER_MS
               /\ n_env' = n_env
                    => /\ now' = now + ns_to_ms(NextEvent - now) * NS_PER_MS
                       /\ now' <= NextEvent]_vars
    /\ [][(next /\ in_next) => ~Sleeps]_vars
    /\ [][(next /\ now' # now) => Sleeps]_vars

\* the pull after an Idle slept the whole milliseconds and woke before the
\* nearer schedule
C15_Witness ==
    /\ in_next
    /\ state = State_UpdateLoop(Idle_No)
    /\ ret.type = "Idle"
    /\ n_env = 0
    /\ now > trace[Len(trace)].at
    /\ now < NextEvent
    /\ NextEvent - now < NS_PER_MS

(***************************************************************************)
(* C16: a setter changes its own fields and nothing else: ups(n) the       *)
(* update period and dt, max_fps(n) the frame period, swap_buffers(b) the  *)
(* flag; none changes the phase, last_update, last_frame, the window or    *)
(* the clock.  The values in force are the ones the next decision uses:    *)
(* the waiting phase compares the clock with the schedules computed from   *)
(* the current periods, Update carries the current dt and advances by the  *)
(* current period, and the SwapBuffers phase obeys the current flag.       *)
(***************************************************************************)
C16_SetterFrame ==
    /\ [][n_sets' # n_sets
            => /\ UNCHANGED <<state, last_update, last_frame, window, caller, now>>
               /\ \/ UNCHANGED <<dt_frame_in_ns, swap_buffers>>
                  \/ UNCHANGED <<dt_update_in_ns, dt, swap_buffers>>
                  \/ UNCHANGED <<dt_update_in_ns, dt, dt_frame_in_ns>>]_vars
    /\ [][\A frames \in Rates :
            /\ ups(frames)
                 => /\ dt_update_in_ns' = BILLION \div frames
                    /\ dt' = Frac(1, frames)
                    /\ UNCHANGED <<state, last_update, last_frame,
                                   dt_frame_in_ns, swap_buffers>>
            /\ max_fps(frames)
                 => /\ dt_frame_in_ns' = BILLION \div frames
                    /\ UNCHANGED <<state, last_update, last_frame,
                                   dt_update_in_ns, dt, swap_buffers>>]_vars
    /\ [][\A enable \in BOOLEAN :
            set_swap_buffers(enable)
                 => /\ swap_buffers' = enable
                    /\ UNCHANGED <<state, last_update, last_frame,
                                   dt_update_in_ns, dt, dt_frame_in_ns>>]_vars
    /\ [][(next /\ state[1] = "UpdateLoop")
            => ((NextEvent > now) <=> (state'[1] = "UpdateLoop"))]_vars
    /\ [][Emits("Update")
            => /\ ret'.dt = dt
               /\ last_update' = last_update + dt_update_in_ns]_vars
    /\ [][(next /\ state = State_SwapBuffers)
            => (swap_buffers <=> Emits("AfterRender"))]_vars

\* the update rate was lowered after the first Idle, and the first Update
\* came one new period after the start, carrying the new dt
C16_Witness ==
    /\ ~in_next
    /\ ups_mid
    /\ ret.type = "Update"
    /\ ret.dt = dt
    /\ Count("Update") = 1
    /\ last_update = start + dt_update_in_ns
    /\ \E i \in DOMAIN trace :
          /\ trace[i].ev.type = "Idle"
          /\ trace[i].at = start
          /\ IdleNs(trace[i].ev) < Min(dt_update_in_ns, dt_frame_in_ns)

(***************************************************************************)
(* C18: as long as no rate was changed after the first pull, last_update   *)
(* and last_frame are never ahead of the clock; so no Render event carries *)
(* a negative ext_dt, and every Idle event carries a positive time that is *)
(* at most the shorter of the two periods.                                 *)
(***************************************************************************)
C18_TimestampsBehindClock ==
    (~ups_mid /\ ~fps_mid)
        => /\ last_update <= now
           /\ last_frame <= now
           /\ \A i \in DOMAIN trace :
                 /\ trace[i].ev.type = "Render"
                      => /\ trace[i].ev.ext_dt[2] # 0
                         /\ trace[i].ev.ext_dt[1] >= 0
                 /\ trace[i].ev.type = "Idle"
                      => /\ IdleNs(trace[i].ev) > 0
                         /\ IdleNs(trace[i].ev) <= Min(dt_frame_in_ns, dt_update_in_ns)

\* rates untouched; updates were made, a frame was rendered with a positive
\* ext_dt, and an Idle was reported
C18_Witness ==
    /\ ~ups_mid
    /\ ~fps_mid
    /\ n_sets = 0
    /\ last_update > start
    /\ Count("Idle") >= 1
    /\ \E i \in DOMAIN trace :
          /\ trace[i].ev.type = "Render"
          /\ trace[i].ev.ext_dt[1] > 0

\* a session whose window already holds one or two events when the loop is
\* built
InitPending ==
    /\ now = 0
    /\ start = now
    /\ new(DEFAULT_UPS, DEFAULT_MAX_FPS, TRUE)
    /\ should_close = FALSE
    /\ size = <<100, 100>>
    /\ queue \in {<<0>>, <<-1, 0>>}
    /\ swaps = 0
    /\ in_next = FALSE
    /\ ret = NoCall
    /\ trace = <<>>
    /\ calls = 0
    /\ closed_at_call = FALSE
    /\ n_env = 0
    /\ n_sets = 0
    /\ ups_mid = FALSE
    /\ fps_mid = FALSE

SpecPending == InitPending /\ [][Next]_vars

(***************************************************************************)
(* C19: whatever rate ups() is given between two pulls, in whatever phase, *)
(* last_update is not ahead of the clock when the loop next attempts a     *)
(* render, so start_render - last_update does not underflow and no Render  *)
(* event carries a negative ext_dt.                                        *)
(***************************************************************************)
C19_UpsMidSessionSafe ==
    /\ [][(next /\ state = State_Render /\ ~should_close)
            => last_update <= now]_vars
    /\ [][Emits("Render")
            => (ret'.ext_dt[2] # 0 /\ ret'.ext_dt[1] >= 0)]_vars

(***************************************************************************)
(* A session that runs without bound, for the progress properties.  The    *)
(* caller keeps no log (it is emptied before each call), the clock moves   *)
(* on its own at any moment, a call included, and the rates are set at     *)
(* construction: the whole ones of Rates, or an update rate past BILLION.   *)
(***************************************************************************)
\* how far the clock moves at a time in such a session
LiveSteps == {100000000}

InitLive ==
    /\ now = 0
    /\ start = now
    /\ \E u \in Rates \cup {BILLION + 1}, f \in Rates, b \in BOOLEAN : new(u, f, b)
    /\ should_close = FALSE
    /\ size = <<100, 100>>
    /\ queue = <<>>
    /\ swaps = 0
    /\ in_next = FALSE
    /\ ret = NoCall
    /\ trace = <<>>
    /\ calls = 0
    /\ closed_at_call = FALSE
    /\ n_env = 0
    /\ n_sets = 0
    /\ ups_mid = FALSE
    /\ fps_mid = FALSE

\* the caller drops what it recorded of the calls made so far
Forget ==
    /\ ~in_next
    /\ calls > 0
    /\ trace' = <<>>
    /\ calls' = 0
    /\ UNCHANGED <<engine, window, in_next, ret, closed_at_call, config, now, start, n_env>>

\* an iteration of next(), in a call begun with an empty log
Pull ==
    /\ in_next \/ calls = 0
    /\ next

\* the clock moving on, unprompted
Elapse(d) ==
    /\ now + d <= MaxClock
    /\ now' = now + d
    /\ UNCHANGED <<engine, window, caller, config, start, n_env>>

NextLive ==
    \/ Pull
    \/ Forget
    \/ \E d \in LiveSteps : Elapse(d)
    \/ Arrive
    \/ Close
    \/ \E sz \in Sizes : Resize(sz)

SpecLive ==
    /\ InitLive
    /\ [][NextLive]_vars
    /\ WF_vars(Pull)
    /\ WF_vars(Forget)
    /\ WF_vars(\E d \in LiveSteps : Elapse(d))

(***************************************************************************)
(* C17: every pull terminates: with positive periods, a call of next()     *)
(* that is under way returns,                                              *)
(* however the clock moves between two readings and even while the window  *)
(* has no area: Render -> UpdateLoop -> Render does not spin for ever      *)
(* inside one call.                                                        *)
(***************************************************************************)
C17_EveryPullReturns ==
    (in_next /\ dt_update_in_ns > 0 /\ dt_frame_in_ns > 0) ~> ~in_next

\* inside one call: a render attempt on a window without area at this clock
\* reading, then an update found due
C17_Witness ==
    /\ in_next
    /\ dt_update_in_ns > 0
    /\ dt_frame_in_ns > 0
    /\ ZeroSize
    /\ last_frame = now
    /\ now > start
    /\ state = State_Update

\* the longest the clock moves at a time
MaxStep == CHOOSE d \in LiveSteps : \A e \in LiveSteps : e <= d

(***************************************************************************)
(* C20: once the window reports that it should close, and there is clock   *)
(* range left for the next frame to fall due, a later call of next()       *)
(* returns None, provided the caller keeps pulling and the clock keeps     *)
(* advancing; pending updates do not put the close check off for ever.     *)
(***************************************************************************)
C20_CloseLeadsToNone ==
    (should_close /\ last_frame + dt_frame_in_ns <= MaxClock - MaxStep)
        ~> (~in_next /\ ret = None)

====
